---------------------------- MODULE Spec2Model ----------------------------
(***************************************************************************)
(* SnugInt<Type>: a wrapper around a fixed-width integer that checks each  *)
(* arithmetic operation before performing it (src/SnugInt.h,               *)
(* src/SnugInt.tpp).                                                       *)
(*                                                                         *)
(* Integer types are modelled by their signedness and width.  Widths are   *)
(* scaled down (CharBits < IntBits < LongBits) so that every operand pair  *)
(* can be enumerated; the C++ rules that decide the code's behaviour are   *)
(* kept: integral promotion of types narrower than int, the usual          *)
(* arithmetic conversions of mixed comparisons, modular conversion to the  *)
(* destination type, modular unsigned arithmetic, and undefined behaviour  *)
(* of signed overflow, of abs(INT_MIN) and of division by zero, which is a *)
(* choice between the wrapped machine result and a trap.                   *)
(***************************************************************************)
EXTENDS Integers, FiniteSets, Sequences, TLC

VARIABLES ty, obj, last, run

vars == <<ty, obj, last, run>>

(* Widths of the narrow type (promoted to int) and of int. *)
CharBits == 2
IntBits == 3
(* A type wider than int, used only as the source type of a conversion. *)
LongBits == IntBits + 1

RECURSIVE Pow2(_)
Pow2(n) == IF n = 0 THEN 1 ELSE 2 * Pow2(n - 1)

IntegerType(s, n) == [sgn |-> s, bits |-> n]

IntT == IntegerType(TRUE, IntBits)

(* The types a wrapper is instantiated over: (un)signed char and int. *)
WrapperTypes == { IntegerType(s, n) : s \in BOOLEAN, n \in {CharBits, IntBits} }

(* The integral types a converting construction may receive. *)
ItemTypes == { IntegerType(s, n) : s \in BOOLEAN, n \in {CharBits, IntBits, LongBits} }

(* std::numeric_limits<T>::min() and max() *)
NumericMin(t) == IF t.sgn THEN 0 - Pow2(t.bits - 1) ELSE 0
NumericMax(t) == IF t.sgn THEN Pow2(t.bits - 1) - 1 ELSE Pow2(t.bits) - 1

Values(t) == NumericMin(t) .. NumericMax(t)

InRange(t, x) == NumericMin(t) <= x /\ x <= NumericMax(t)

(* Conversion of the mathematical integer x to type t: reduction modulo    *)
(* 2^bits into the range of t.                                             *)
Convert(t, x) ==
    LET m == x % Pow2(t.bits)
    IN  IF t.sgn /\ m > NumericMax(t) THEN m - Pow2(t.bits) ELSE m

(* Integral promotion: a type narrower than int becomes int. *)
Promote(t) == IF t.bits < IntBits THEN IntT ELSE t

(* Usual arithmetic conversions: the common type of two operand types. *)
CommonType(t1, t2) ==
    LET p == Promote(t1)
        q == Promote(t2)
        u == IF p.sgn THEN q ELSE p
        s == IF p.sgn THEN p ELSE q
    IN  IF p.sgn = q.sgn THEN (IF p.bits >= q.bits THEN p ELSE q)
        ELSE IF u.bits >= s.bits THEN u
        ELSE s

(* x < y and x > y for x of type t1 and y of type t2, as the built-in      *)
(* operators compare them: both converted to the common type first.        *)
Less(t1, x, t2, y) ==
    LET c == CommonType(t1, t2) IN Convert(c, x) < Convert(c, y)

Greater(t1, x, t2, y) == Less(t2, y, t1, x)


(***************************************************************************)
(* Built-in arithmetic.  An expression evaluates to a set of possible      *)
(* results: a value, or a trap when the evaluation is undefined.           *)
(***************************************************************************)
Val(x) == [trap |-> FALSE, v |-> x]
Trap == [trap |-> TRUE, v |-> 0]

(* The result of an operation of type t whose exact result is e: e when    *)
(* representable, reduced modulo 2^bits for an unsigned type, and          *)
(* undefined for a signed type (the wrapped result, or a trap).            *)
Eval(t, e) ==
    IF InRange(t, e) THEN {Val(e)}
    ELSE IF ~t.sgn THEN {Val(Convert(t, e))}
    ELSE {Val(Convert(t, e)), Trap}

(* C++ integer division truncates toward zero. *)
TruncDiv(x, y) ==
    LET ax == IF x < 0 THEN 0 - x ELSE x
        ay == IF y < 0 THEN 0 - y ELSE y
        q == ax \div ay
    IN  IF (x < 0) = (y < 0) THEN q ELSE 0 - q

(* x + y, x - y, x * y, x / y for operands of type t (promoted first). *)
NativeAdd(t, x, y) == Eval(Promote(t), x + y)
NativeSub(t, x, y) == Eval(Promote(t), x - y)
NativeMul(t, x, y) == Eval(Promote(t), x * y)
NativeDiv(t, x, y) ==
    IF y = 0 THEN {Val(0), Trap} ELSE Eval(Promote(t), TruncDiv(x, y))

(* abs(x) for x of type t: int abs(int), the argument converted to int. *)
NativeAbs(t, x) ==
    LET xi == Convert(IntT, x)
    IN  Eval(IntT, IF xi < 0 THEN 0 - xi ELSE xi)

(***************************************************************************)
(* Outcomes of an operation: a wrapper, a thrown exception, or a trap.     *)
(***************************************************************************)
Wrapper(v, lo, hi) == [value |-> v, min |-> lo, max |-> hi]

NoWrapper == Wrapper(0, 0, 0)

Returned(w) == [kind |-> "ok", w |-> w]
Thrown(k) == [kind |-> k, w |-> NoWrapper]
Crash == [kind |-> "trap", w |-> NoWrapper]

Exceptions ==
    { "AdditionOverflow", "AdditionUnderflow", "SubtractionOverflow",
      "SubtractionUnderflow", "MultiplicationOverflow",
      "MultiplicationUnderflow", "SizeMismatch", "TypeMismatch" }

(* SnugInt<Type>::SnugInt() *)
SnugIntDefault ==
    LET lo == NumericMin(ty)
        hi == NumericMax(ty)
    IN  IF lo = hi THEN Thrown("TypeMismatch")
        ELSE Returned(Wrapper(0, lo, hi))

(* SnugInt<Type>::SnugInt(const SnugInt<Type>& other) *)
SnugIntCopy(other) ==
    IF other.min = other.max THEN Thrown("TypeMismatch")
    ELSE Returned(Wrapper(other.value, other.min, other.max))

(* SnugInt<Type>::SnugInt(const T& item), item of type t. *)
SnugIntItem(t, item) ==
    LET lo == NumericMin(ty)
        hi == NumericMax(ty)
    IN  IF lo = hi THEN Thrown("TypeMismatch")
        ELSE IF Greater(t, item, ty, hi) \/ Less(t, item, ty, lo)
             THEN Thrown("SizeMismatch")
        ELSE Returned(Wrapper(Convert(ty, item), lo, hi))

(* Construction of the result from an evaluated expression of the         *)
(* promoted type.                                                          *)
FromExpr(results) ==
    { IF e.trap THEN Crash ELSE SnugIntItem(Promote(ty), e.v) : e \in results }

(* The possible truth values of a test over the possible values of its    *)
(* two subexpressions; the test is undefined when a subexpression is.      *)
Holds(c) == [trap |-> FALSE, v |-> c]
Undefined == [trap |-> TRUE, v |-> FALSE]

(* if (<test>) throw k; <rest> *)
Guarded(tests, k, rest) ==
    UNION { IF c.trap THEN {Crash}
            ELSE IF c.v THEN {Thrown(k)}
            ELSE rest : c \in tests }

(* SafeAdd computing the sum before testing it against the bounds. *)
SafeAddSumFirst(left, right) ==
    LET P == Promote(ty)
    IN  UNION { IF s.trap THEN {Crash}
                ELSE IF Greater(P, s.v, ty, left.max) THEN {Thrown("AdditionOverflow")}
                ELSE IF Less(P, s.v, ty, left.min) THEN {Thrown("AdditionUnderflow")}
                ELSE {SnugIntItem(P, s.v)}
                : s \in NativeAdd(ty, left.value, right.value) }

(* SafeAdd with the overflow test off by one: max - left <= right. *)
SafeAddOffByOne(left, right) ==
    LET P == Promote(ty)
        sum == FromExpr(NativeAdd(ty, left.value, right.value))
    IN  IF left.value > 0 /\ right.value > 0
        THEN Guarded({ IF d.trap THEN Undefined
                       ELSE Holds(~Greater(P, d.v, ty, right.value))
                       : d \in NativeSub(ty, left.max, left.value) },
                     "AdditionOverflow", sum)
        ELSE IF left.value < 0 /\ right.value < 0
        THEN Guarded({ IF d.trap THEN Undefined
                       ELSE Holds(Greater(P, d.v, ty, right.value))
                       : d \in NativeSub(ty, left.min, left.value) },
                     "AdditionUnderflow", sum)
        ELSE sum

(* SnugInt<Type>::SafeAdd *)
SafeAdd(left, right) ==
    LET P == Promote(ty)
        sum == FromExpr(NativeAdd(ty, left.value, right.value))
    IN  IF left.value > 0 /\ right.value > 0
        THEN Guarded({ IF d.trap THEN Undefined
                       ELSE Holds(Less(P, d.v, ty, right.value))
                       : d \in NativeSub(ty, left.max, left.value) },
                     "AdditionOverflow", sum)
        ELSE IF left.value < 0 /\ right.value < 0
        THEN Guarded({ IF d.trap THEN Undefined
                       ELSE Holds(Greater(P, d.v, ty, right.value))
                       : d \in NativeSub(ty, left.min, left.value) },
                     "AdditionUnderflow", sum)
        ELSE sum

(* The exact values of the arithmetic subexpressions SafeAdd evaluates, in  *)
(* the order of its code: the difference of its test, then the sum unless  *)
(* the test threw.                                                         *)
SafeAddEvaluated(left, right) ==
    LET P == Promote(ty)
        sum == left.value + right.value
    IN  IF left.value > 0 /\ right.value > 0
        THEN LET d == left.max - left.value
             IN  {d} \cup (IF Less(P, Convert(P, d), ty, right.value) THEN {} ELSE {sum})
        ELSE IF left.value < 0 /\ right.value < 0
        THEN LET d == left.min - left.value
             IN  {d} \cup (IF Greater(P, Convert(P, d), ty, right.value) THEN {} ELSE {sum})
        ELSE {sum}

(* SnugInt<Type>::SafeSub *)
SafeSub(left, right) ==
    LET P == Promote(ty)
        diff == FromExpr(NativeSub(ty, left.value, right.value))
    IN  IF left.value > 0 /\ right.value < 0
        THEN Guarded({ IF d.trap \/ m.trap THEN Undefined
                       ELSE Holds(Less(P, d.v, IntT, m.v))
                       : d \in NativeSub(ty, left.max, left.value),
                         m \in NativeAbs(ty, right.value) },
                     "SubtractionOverflow", diff)
        ELSE IF left.value < 0 /\ right.value > 0
        THEN Guarded(UNION { IF d.trap THEN {Undefined}
                             ELSE { IF m.trap THEN Undefined
                                    ELSE Holds(Less(IntT, m.v, ty, right.value))
                                    : m \in NativeAbs(P, d.v) }
                             : d \in NativeSub(ty, left.min, left.value) },
                     "SubtractionUnderflow", diff)
        ELSE diff

(* The exact values of the subexpressions SafeSub evaluates in its tests:   *)
(* max - left and abs(right), or min - left and abs(min - left).           *)
SafeSubEvaluated(left, right) ==
    LET Magnitude(x) == IF x < 0 THEN 0 - x ELSE x
    IN  IF left.value > 0 /\ right.value < 0
        THEN {left.max - left.value, Magnitude(right.value)}
        ELSE IF left.value < 0 /\ right.value > 0
        THEN {left.min - left.value, Magnitude(left.min - left.value)}
        ELSE {}

(* SafeMult without the left.value != 0 guard of the (-,-) quadrant. *)
SafeMultNoZeroGuard(left, right) ==
    LET P == Promote(ty)
        prod == FromExpr(NativeMul(ty, left.value, right.value))
    IN  IF left.value > 0
        THEN IF right.value > 0
             THEN Guarded({ IF q.trap THEN Undefined
                            ELSE Holds(Greater(ty, left.value, P, q.v))
                            : q \in NativeDiv(ty, left.max, right.value) },
                          "MultiplicationOverflow", prod)
             ELSE Guarded({ IF q.trap THEN Undefined
                            ELSE Holds(Less(ty, right.value, P, q.v))
                            : q \in NativeDiv(ty, left.min, left.value) },
                          "MultiplicationUnderflow", prod)
        ELSE IF right.value > 0
             THEN Guarded({ IF q.trap THEN Undefined
                            ELSE Holds(Less(ty, left.value, P, q.v))
                            : q \in NativeDiv(ty, left.min, right.value) },
                          "MultiplicationUnderflow", prod)
             ELSE Guarded({ IF q.trap THEN Undefined
                            ELSE Holds(Less(ty, right.value, P, q.v))
                            : q \in NativeDiv(ty, left.max, left.value) },
                          "MultiplicationOverflow", prod)

(* SafeMult without the test of the (-,-) quadrant. *)
SafeMultNoNegativeQuadrant(left, right) ==
    LET P == Promote(ty)
        prod == FromExpr(NativeMul(ty, left.value, right.value))
    IN  IF left.value > 0
        THEN IF right.value > 0
             THEN Guarded({ IF q.trap THEN Undefined
                            ELSE Holds(Greater(ty, left.value, P, q.v))
                            : q \in NativeDiv(ty, left.max, right.value) },
                          "MultiplicationOverflow", prod)
             ELSE Guarded({ IF q.trap THEN Undefined
                            ELSE Holds(Less(ty, right.value, P, q.v))
                            : q \in NativeDiv(ty, left.min, left.value) },
                          "MultiplicationUnderflow", prod)
        ELSE IF right.value > 0
             THEN Guarded({ IF q.trap THEN Undefined
                            ELSE Holds(Less(ty, left.value, P, q.v))
                            : q \in NativeDiv(ty, left.min, right.value) },
                          "MultiplicationUnderflow", prod)
             ELSE prod

(* SnugInt<Type>::SafeMult *)
SafeMult(left, right) ==
    LET P == Promote(ty)
        prod == FromExpr(NativeMul(ty, left.value, right.value))
    IN  IF left.value > 0
        THEN IF right.value > 0
             THEN Guarded({ IF q.trap THEN Undefined
                            ELSE Holds(Greater(ty, left.value, P, q.v))
                            : q \in NativeDiv(ty, left.max, right.value) },
                          "MultiplicationOverflow", prod)
             ELSE Guarded({ IF q.trap THEN Undefined
                            ELSE Holds(Less(ty, right.value, P, q.v))
                            : q \in NativeDiv(ty, left.min, left.value) },
                          "MultiplicationUnderflow", prod)
        ELSE IF right.value > 0
             THEN Guarded({ IF q.trap THEN Undefined
                            ELSE Holds(Less(ty, left.value, P, q.v))
                            : q \in NativeDiv(ty, left.min, right.value) },
                          "MultiplicationUnderflow", prod)
             ELSE IF left.value # 0
                  THEN Guarded({ IF q.trap THEN Undefined
                                 ELSE Holds(Less(ty, right.value, P, q.v))
                                 : q \in NativeDiv(ty, left.max, left.value) },
                               "MultiplicationOverflow", prod)
                  ELSE prod

(* The divisions SafeMult evaluates in its tests, as dividend and divisor. *)
SafeMultDivisions(left, right) ==
    IF left.value > 0
    THEN IF right.value > 0
         THEN {[num |-> left.max, den |-> right.value]}
         ELSE {[num |-> left.min, den |-> left.value]}
    ELSE IF right.value > 0
         THEN {[num |-> left.min, den |-> right.value]}
         ELSE IF left.value # 0
              THEN {[num |-> left.max, den |-> left.value]}
              ELSE {}

(* SnugInt<Type>::SafeDiv *)
SafeDiv(left, right) == FromExpr(NativeDiv(ty, left.value, right.value))

(***************************************************************************)
(* Member functions that change *this: the result carries the returned     *)
(* wrapper (w) and the object after the call (self).                       *)
(***************************************************************************)
Mutated(ret, self) == [kind |-> "ok", w |-> ret, self |-> self]
Failed(k, self) == [kind |-> k, w |-> NoWrapper, self |-> self]

(* operator= taking max from other.min. *)
AssignSnugIntSwappedBound(this, other) ==
    LET n == Wrapper(other.value, other.min, other.min) IN Mutated(n, n)

(* operator=(const SnugInt& other) *)
AssignSnugInt(this, other) ==
    LET n == Wrapper(other.value, other.min, other.max) IN Mutated(n, n)

(* operator=(const Type& other) *)
AssignType(this, other) ==
    LET n == [this EXCEPT !.value = other] IN Mutated(n, n)

(* operator+= as the built-in value += other.value, without SafeAdd. *)
AddAssignTailUnchecked(this, other) ==
    { IF e.trap THEN Failed("trap", this)
      ELSE LET n == [this EXCEPT !.value = Convert(ty, e.v)] IN Mutated(n, n)
      : e \in NativeAdd(ty, this.value, other.value) }

(* operator+= adding in place before the check reports the failure. *)
AddAssignTailStoreFirst(this, other) ==
    LET conv == SnugIntItem(ty, this.value)
    IN  IF conv.kind # "ok" THEN {Failed(conv.kind, this)}
        ELSE { IF o.kind = "ok"
               THEN LET n == [this EXCEPT !.value = o.w.value] IN Mutated(n, n)
               ELSE Failed(o.kind, [this EXCEPT !.value =
                                      Convert(ty, this.value + other.value)])
               : o \in SafeAdd(conv.w, other) }

(* The tail of both operator+= overloads: value = SafeAdd(value, other).getValue() *)
AddAssignTail(this, other) ==
    LET conv == SnugIntItem(ty, this.value)
    IN  IF conv.kind # "ok" THEN {Failed(conv.kind, this)}
        ELSE { IF o.kind = "ok"
               THEN LET n == [this EXCEPT !.value = o.w.value] IN Mutated(n, n)
               ELSE Failed(o.kind, this) : o \in SafeAdd(conv.w, other) }

(* operator+=(const SnugInt& other) *)
AddAssignSnugInt(this, other) == AddAssignTail(this, other)

(* operator+=(const Type& other) *)
AddAssignType(this, other) ==
    LET temp == SnugIntItem(ty, other)
    IN  IF temp.kind # "ok" THEN {Failed(temp.kind, this)}
        ELSE AddAssignTail(this, temp.w)

(* value++ and value-- on the stored Type. *)
Step(this, results) ==
    { IF e.trap THEN Failed("trap", this)
      ELSE LET n == [this EXCEPT !.value = Convert(ty, e.v)] IN Mutated(n, n)
      : e \in results }

(* operator++() without its precondition test. *)
PreIncrementUnchecked(this) ==
    Step(this, NativeAdd(ty, this.value, 1))

(* operator++() *)
PreIncrement(this) ==
    IF this.value = this.max THEN {Failed("AdditionOverflow", this)}
    ELSE Step(this, NativeAdd(ty, this.value, 1))

(* operator--() testing the upper bound, as operator++() does. *)
PreDecrementWrongBound(this) ==
    IF this.value = this.max THEN {Failed("SubtractionUnderflow", this)}
    ELSE Step(this, NativeSub(ty, this.value, 1))

(* operator--() *)
PreDecrement(this) ==
    IF this.value = this.min THEN {Failed("SubtractionUnderflow", this)}
    ELSE Step(this, NativeSub(ty, this.value, 1))

(* The tail of the postfix forms: snapshot *this, apply the prefix form,   *)
(* return the snapshot.                                                    *)
Snapshot(this, stepped) ==
    LET temp == SnugIntCopy(this)
    IN  IF temp.kind # "ok" THEN {Failed(temp.kind, this)}
        ELSE { IF r.kind = "ok" THEN Mutated(temp.w, r.self) ELSE r : r \in stepped }

(* operator++(int) returning the incremented object, as the prefix form. *)
PostIncrementReturnsNew(this) ==
    IF this.value = this.max THEN {Failed("AdditionOverflow", this)}
    ELSE PreIncrement(this)

(* operator++(int) *)
PostIncrement(this) ==
    IF this.value = this.max THEN {Failed("AdditionOverflow", this)}
    ELSE Snapshot(this, PreIncrement(this))

(* operator--(int) *)
PostDecrement(this) ==
    IF this.value = this.min THEN {Failed("SubtractionUnderflow", this)}
    ELSE Snapshot(this, PreDecrement(this))

(* The four checked operations by operator symbol. *)
Safe(op, left, right) ==
    CASE op = "+" -> SafeAdd(left, right)
      [] op = "-" -> SafeSub(left, right)
      [] op = "*" -> SafeMult(left, right)
      [] op = "/" -> SafeDiv(left, right)

BinaryOps == {"+", "-", "*", "/"}

(* operator+ - * / (const SnugInt<T>&, const SnugInt<T>&) *)
BinarySnugIntSnugInt(op, left, right) == Safe(op, left, right)

(* operator+ - * / (const SnugInt<T>&, const T&) *)
BinarySnugIntT(op, left, right) ==
    LET temp == SnugIntItem(ty, right)
    IN  IF temp.kind # "ok" THEN {temp} ELSE Safe(op, left, temp.w)

(* operator+ - * / (const T&, const SnugInt<T>&) *)
BinaryTSnugInt(op, left, right) ==
    LET temp == SnugIntItem(ty, left)
    IN  IF temp.kind # "ok" THEN {temp} ELSE Safe(op, temp.w, right)

(***************************************************************************)
(* The program: a wrapper type, two live wrappers a and b, and the record  *)
(* of the statement in progress (the operation, its operands, its outcome, *)
(* the returned wrapper and the wrappers as they were before it).  A       *)
(* statement is one operation, optionally followed by the assignment of    *)
(* the wrapper it returned.                                                *)
(***************************************************************************)
Names == {"a", "b"}

Record(op, shape, src, l, r, tgt, kind, res, pre) ==
    [op |-> op, shape |-> shape, src |-> src, l |-> l, r |-> r, tgt |-> tgt,
     kind |-> kind, res |-> res, pre |-> pre]

(* No statement is in progress: the previous one has completed. *)
Idle == last.op = "idle"

IdleRecord(o) == Record("idle", "-", ty, 0, 0, "-", "ok", NoWrapper, o)

(* No run of increments or decrements is being tallied. *)
NoRun == [dir |-> "none", start |-> 0, ok |-> 0]

Init ==
    /\ ty \in WrapperTypes
    /\ SnugIntDefault.kind = "ok"
    /\ obj = [n \in Names |-> SnugIntDefault.w]
    /\ last = IdleRecord(obj)
    /\ run = NoRun

(* SnugInt<Type> x;  *)
DefaultConstruct ==
    /\ Idle
    /\ last' = Record("default", "-", ty, 0, 0, "-", SnugIntDefault.kind,
                      SnugIntDefault.w, obj)
    /\ UNCHANGED <<ty, obj, run>>

(* SnugInt<Type> x(y); *)
CopyConstruct(y) ==
    /\ Idle
    /\ LET o == SnugIntCopy(obj[y])
       IN  last' = Record("copy", "-", ty, obj[y].value, 0, "-", o.kind, o.w, obj)
    /\ UNCHANGED <<ty, obj, run>>

(* SnugInt<Type> x(item); for an item of integral type t *)
ConvertConstruct(t, item) ==
    /\ Idle
    /\ LET o == SnugIntItem(t, item)
       IN  last' = Record("convert", "-", t, item, 0, "-", o.kind, o.w, obj)
    /\ UNCHANGED <<ty, obj, run>>

(* The caller's tally of a run of increments or decrements: one more when  *)
(* the operator returned, the same when it threw.  Outside a run there is  *)
(* no tally.                                                               *)
Tally(kind) ==
    IF run.dir # "none" /\ kind = "ok" THEN [run EXCEPT !.ok = @ + 1] ELSE run

(* A member function of x that changes it, with outcome o. *)
Apply(op, shape, x, l, r, o) ==
    /\ obj' = [obj EXCEPT ![x] = o.self]
    /\ last' = Record(op, shape, ty, l, r, x, o.kind, o.w, obj)
    /\ run' = Tally(o.kind)
    /\ UNCHANGED ty

(* x = y; *)
Assign(x, y) ==
    /\ Idle
    /\ Apply("=", "ww", x, obj[x].value, obj[y].value, AssignSnugInt(obj[x], obj[y]))

(* x = <the wrapper the last operation returned>; as in si1 = si1 - si2; *)
AssignResult(x) ==
    /\ last.kind = "ok"
    /\ last.op \in BinaryOps \cup {"default", "copy", "convert"}
    /\ Apply("=", "ww", x, obj[x].value, last.res.value, AssignSnugInt(obj[x], last.res))

(* x = v; for v of the wrapped type *)
AssignRaw(x, v) ==
    /\ Idle
    /\ Apply("=", "wr", x, obj[x].value, v, AssignType(obj[x], v))

(* x += y; *)
AddAssign(x, y) ==
    /\ Idle
    /\ \E o \in AddAssignSnugInt(obj[x], obj[y]) :
          Apply("+=", "ww", x, obj[x].value, obj[y].value, o)

(* x += v; *)
AddAssignRaw(x, v) ==
    /\ Idle
    /\ \E o \in AddAssignType(obj[x], v) :
          Apply("+=", "wr", x, obj[x].value, v, o)

(* ++x; x++; --x; x--; *)
PreInc(x) ==
    /\ Idle
    /\ \E o \in PreIncrement(obj[x]) : Apply("++x", "-", x, obj[x].value, 0, o)

PostInc(x) ==
    /\ Idle
    /\ \E o \in PostIncrement(obj[x]) : Apply("x++", "-", x, obj[x].value, 0, o)

PreDec(x) ==
    /\ Idle
    /\ \E o \in PreDecrement(obj[x]) : Apply("--x", "-", x, obj[x].value, 0, o)

PostDec(x) ==
    /\ Idle
    /\ \E o \in PostDecrement(obj[x]) : Apply("x--", "-", x, obj[x].value, 0, o)

(* operator+ - * / written as a compound assignment: the result is stored  *)
(* in the left operand as well as returned.                                *)
BinaryWWInPlace(op, x, y) ==
    /\ Idle
    /\ \E o \in BinarySnugIntSnugInt(op, obj[x], obj[y]) :
          /\ last' = Record(op, "ww", ty, obj[x].value, obj[y].value, "-", o.kind, o.w, obj)
          /\ obj' = IF o.kind = "ok" THEN [obj EXCEPT ![x] = o.w] ELSE obj
    /\ UNCHANGED <<ty, run>>

(* x op y;  x op v;  v op y; *)
BinaryWW(op, x, y) ==
    /\ Idle
    /\ \E o \in BinarySnugIntSnugInt(op, obj[x], obj[y]) :
          last' = Record(op, "ww", ty, obj[x].value, obj[y].value, "-", o.kind, o.w, obj)
    /\ UNCHANGED <<ty, obj, run>>

BinaryWR(op, x, v) ==
    /\ Idle
    /\ \E o \in BinarySnugIntT(op, obj[x], v) :
          last' = Record(op, "wr", ty, obj[x].value, v, "-", o.kind, o.w, obj)
    /\ UNCHANGED <<ty, obj, run>>

BinaryRW(op, v, y) ==
    /\ Idle
    /\ \E o \in BinaryTSnugInt(op, v, obj[y]) :
          last' = Record(op, "rw", ty, v, obj[y].value, "-", o.kind, o.w, obj)
    /\ UNCHANGED <<ty, obj, run>>

(* The statement ends: the returned temporary is destroyed, or the thrown   *)
(* exception is handled by the caller.  A trap ends the process instead.   *)
EndStatement ==
    /\ ~Idle
    /\ last.kind # "trap"
    /\ last' = IdleRecord(obj)
    /\ UNCHANGED <<ty, obj, run>>

Next ==
    \/ EndStatement
    \/ DefaultConstruct
    \/ \E y \in Names : CopyConstruct(y)
    \/ \E t \in ItemTypes : \E item \in Values(t) : ConvertConstruct(t, item)
    \/ \E x \in Names : \E y \in Names : Assign(x, y)
    \/ \E x \in Names : AssignResult(x)
    \/ \E x \in Names : \E v \in Values(ty) : AssignRaw(x, v)
    \/ \E x \in Names : \E y \in Names : AddAssign(x, y)
    \/ \E x \in Names : \E v \in Values(ty) : AddAssignRaw(x, v)
    \/ \E x \in Names : PreInc(x)
    \/ \E x \in Names : PostInc(x)
    \/ \E x \in Names : PreDec(x)
    \/ \E x \in Names : PostDec(x)
    \/ \E op \in BinaryOps : \E x \in Names : \E y \in Names : BinaryWW(op, x, y)
    \/ \E op \in BinaryOps : \E x \in Names : \E v \in Values(ty) : BinaryWR(op, x, v)
    \/ \E op \in BinaryOps : \E v \in Values(ty) : \E y \in Names : BinaryRW(op, v, y)

Spec == Init /\ [][Next]_vars

(***************************************************************************)
(* A run: a is constructed from a value v of its type, and the caller then *)
(* applies ++ (or --) to it over and over, in either form, handling each   *)
(* exception and counting the calls that returned.  The caller never stops *)
(* of its own accord, so a step that can be taken is eventually taken.     *)
(***************************************************************************)
InitRun ==
    /\ ty \in WrapperTypes
    /\ SnugIntDefault.kind = "ok"
    /\ \E v \in Values(ty) : \E d \in {"++", "--"} :
          /\ SnugIntItem(ty, v).kind = "ok"
          /\ obj = [n \in Names |->
                      IF n = "a" THEN SnugIntItem(ty, v).w ELSE SnugIntDefault.w]
          /\ run = [dir |-> d, start |-> v, ok |-> 0]
    /\ last = IdleRecord(obj)

(* No type has more values than this, so no run counts further. *)
RunLimit == NumericMax(ty) - NumericMin(ty)

RunPreInc  == run.dir = "++" /\ run.ok <= RunLimit /\ PreInc("a")
RunPostInc == run.dir = "++" /\ run.ok <= RunLimit /\ PostInc("a")
RunPreDec  == run.dir = "--" /\ run.ok <= RunLimit /\ PreDec("a")
RunPostDec == run.dir = "--" /\ run.ok <= RunLimit /\ PostDec("a")

RunNext ==
    \/ EndStatement
    \/ RunPreInc
    \/ RunPostInc
    \/ RunPreDec
    \/ RunPostDec

SpecRun == InitRun /\ [][RunNext]_vars /\ WF_vars(RunNext)

(***************************************************************************)
(* Properties.  lo and hi are the bounds of the wrapped type; Exact is the *)
(* result of a binary operator over the mathematical integers.             *)
(***************************************************************************)
lo == NumericMin(ty)
hi == NumericMax(ty)

Exact(op, l, r) ==
    CASE op = "+" -> l + r
      [] op = "-" -> l - r
      [] op = "*" -> l * r
      [] op = "/" -> IF r = 0 THEN 0 ELSE TruncDiv(l, r)

(* A checked operation with exact result e behaves as its contract says:   *)
(* it returns e when e is representable, throws over when e > max and      *)
(* under when e < min.                                                     *)
Classified(e, over, under) ==
    /\ InRange(ty, e) => last.kind = "ok" /\ last.res.value = e
    /\ e > hi => last.kind = over
    /\ e < lo => last.kind = under

(* C2: checked addition returns the exact sum a + b exactly when it lies   *)
(* in [min, max], throws AdditionOverflow when a + b > max and             *)
(* AdditionUnderflow when a + b < min, for every wrapped type and every    *)
(* operand shape.                                                          *)
C2_CheckedAddition ==
    last.op = "+" => Classified(last.l + last.r, "AdditionOverflow", "AdditionUnderflow")

C2_Witness ==
    /\ last.op = "+"
    /\ ty.sgn
    /\ last.l < 0
    /\ last.l + last.r < lo
    /\ last.kind = "AdditionUnderflow"

(* C3: over a signed type, checked subtraction returns the exact           *)
(* difference a - b exactly when it lies in [min, max], throws             *)
(* SubtractionOverflow when a - b > max and SubtractionUnderflow when      *)
(* a - b < min.                                                            *)
C3_CheckedSubtraction ==
    (last.op = "-" /\ ty.sgn) =>
        Classified(last.l - last.r, "SubtractionOverflow", "SubtractionUnderflow")

(* C4: over an unsigned type, a - b with b > a throws SubtractionUnderflow *)
(* and never returns a wrapper (holding the wrapped difference).           *)
C4_UnsignedSubtraction ==
    (last.op = "-" /\ ~ty.sgn /\ last.r > last.l) => last.kind = "SubtractionUnderflow"

(* C5: over a signed type, checked multiplication returns the exact        *)
(* product a * b exactly when it lies in [min, max], throws                *)
(* MultiplicationOverflow when a * b > max and MultiplicationUnderflow     *)
(* when a * b < min, zero and min included as operands.                    *)
C5_CheckedMultiplication ==
    (last.op = "*" /\ ty.sgn) =>
        Classified(last.l * last.r, "MultiplicationOverflow", "MultiplicationUnderflow")

C5_Witness ==
    /\ last.op = "*"
    /\ ty.sgn
    /\ last.l = lo
    /\ last.r < 0
    /\ last.kind = "MultiplicationOverflow"

(* C6: division by a zero-valued wrapper ends in a DivisionByZero failure, *)
(* for every dividend and operand shape: never a trap, never a returned    *)
(* wrapper, never another failure kind.                                    *)
C6_DivisionByZero ==
    (last.op = "/" /\ last.r = 0) => last.kind = "DivisionByZero"

(* C7: converting construction from an item of any integral type throws    *)
(* SizeMismatch when the item, as a mathematical integer, is outside       *)
(* [min, max], and otherwise returns a wrapper whose value is the item.    *)
C7_RangeCheckedConstruction ==
    last.op = "convert" =>
        /\ InRange(ty, last.l) => last.kind = "ok" /\ last.res.value = last.l
        /\ ~InRange(ty, last.l) => last.kind = "SizeMismatch"

(* C8: every live wrapper, and every wrapper an operation returns, has    *)
(* min = min(T), max = max(T), min < max and min <= value <= max, and no   *)
(* operation raises TypeMismatch.                                          *)
ValidWrapper(w) ==
    /\ w.min = lo
    /\ w.max = hi
    /\ w.min < w.max
    /\ w.min <= w.value
    /\ w.value <= w.max

C8_InstanceInvariant ==
    /\ \A n \in Names : ValidWrapper(obj[n])
    /\ (~Idle /\ last.kind = "ok") => ValidWrapper(last.res)
    /\ last.kind # "TypeMismatch"

C8_Witness ==
    /\ last.op = "="
    /\ last.shape = "ww"
    /\ last.tgt = "a"
    /\ last.pre["a"].value # obj["a"].value
    /\ obj["a"].value = hi
    /\ obj["b"].value = lo

(* C9: prefix and postfix ++ at value = max throw AdditionOverflow and     *)
(* leave the value at max, -- at value = min throws SubtractionUnderflow   *)
(* and leaves the value at min; at any other value ++ adds 1 and --        *)
(* subtracts 1.                                                            *)
C9_IncrementDecrement ==
    /\ last.op \in {"++x", "x++"} =>
          IF last.l = hi
          THEN last.kind = "AdditionOverflow" /\ obj[last.tgt].value = hi
          ELSE last.kind = "ok" /\ obj[last.tgt].value = last.l + 1
    /\ last.op \in {"--x", "x--"} =>
          IF last.l = lo
          THEN last.kind = "SubtractionUnderflow" /\ obj[last.tgt].value = lo
          ELSE last.kind = "ok" /\ obj[last.tgt].value = last.l - 1

C9_Witness ==
    /\ last.op = "x--"
    /\ last.l = lo
    /\ last.kind = "SubtractionUnderflow"

(* C10: an operation that throws leaves value, min and max of every        *)
(* wrapper exactly as they were before it, however often it is repeated.   *)
C10_AllOrNothing ==
    last.kind \in Exceptions => obj = last.pre

C10_Witness ==
    /\ last.op = "+="
    /\ last.kind = "AdditionOverflow"
    /\ last.pre[last.tgt].value = hi

(* C1: every operation that returns stores the exact result of the         *)
(* operation over the mathematical integers, and every operation whose     *)
(* exact result is outside [min, max] throws instead.                      *)
C1_NoSilentWrap ==
    LET stored == IF last.tgt = "-" THEN last.res.value ELSE obj[last.tgt].value
        e == CASE last.op \in BinaryOps -> Exact(last.op, last.l, last.r)
               [] last.op = "+=" -> last.l + last.r
               [] last.op \in {"++x", "x++"} -> last.l + 1
               [] last.op \in {"--x", "x--"} -> last.l - 1
               [] last.op = "convert" -> last.l
               [] last.op = "=" -> last.r
               [] OTHER -> stored
    IN  (~Idle /\ ~(last.op = "/" /\ last.r = 0)) =>
            /\ last.kind = "ok" => stored = e
            /\ ~InRange(ty, e) => last.kind \in Exceptions

(* C11: a binary + - * / that returns, in any operand shape, returns a     *)
(* new wrapper and leaves value, min and max of every existing wrapper     *)
(* unchanged; only assignment, +=, ++ and -- change an existing wrapper.   *)
C11_ValueSemantics ==
    /\ (last.op \in BinaryOps /\ last.kind = "ok") => obj = last.pre
    /\ (~Idle /\ obj # last.pre) => last.op \in {"=", "+=", "++x", "x++", "--x", "x--"}

C11_Witness ==
    /\ last.op = "-"
    /\ last.shape = "rw"
    /\ last.kind = "ok"
    /\ last.res.value # last.l
    /\ last.res.value # last.r
    /\ obj = last.pre

(* C12: over a signed type, in the cases SafeSub does not test (operands   *)
(* of the same sign, or either operand zero) the exact difference          *)
(* left - right lies in [min, max], left = 0 with right = min included.    *)
C12_UncheckedSubtractionSafe ==
    (/\ last.op = "-"
     /\ ty.sgn
     /\ ~(last.l > 0 /\ last.r < 0)
     /\ ~(last.l < 0 /\ last.r > 0)) => InRange(ty, last.l - last.r)

(* C13: over a signed type, for every dividend and every non-zero divisor  *)
(* the exact quotient truncated toward zero lies in [min, max] and SafeDiv *)
(* returns it, min / -1 included.                                          *)
C13_DivisionInRange ==
    (last.op = "/" /\ ty.sgn /\ last.r # 0) =>
        /\ InRange(ty, TruncDiv(last.l, last.r))
        /\ last.kind = "ok"
        /\ last.res.value = TruncDiv(last.l, last.r)

(* The operands of the last binary operation, as wrappers. *)
LeftOperand == Wrapper(last.l, lo, hi)
RightOperand == Wrapper(last.r, lo, hi)

(* C14: every expression SafeAdd evaluates (max - left when both operands  *)
(* are > 0, min - left when both are < 0, and the sum on the paths that    *)
(* reach it) has its exact value in [min, max], so no evaluation of        *)
(* SafeAdd is undefined.                                                   *)
C14_AdditionCheckNoOverflow ==
    last.op = "+" =>
        /\ last.kind # "trap"
        /\ \A e \in SafeAddEvaluated(LeftOperand, RightOperand) : InRange(ty, e)

C14_Witness ==
    /\ last.op = "+"
    /\ ty.sgn
    /\ ty.bits = IntBits
    /\ last.l = hi
    /\ last.r = hi
    /\ last.kind = "AdditionOverflow"

(* C15: none of the divisions SafeMult evaluates in its tests has a zero   *)
(* divisor or a quotient outside [min, max], so no evaluation of SafeMult  *)
(* is undefined, and SafeMult returns 0 whenever either operand is 0.      *)
C15_MultiplicationCheckDefined ==
    last.op = "*" =>
        /\ last.kind # "trap"
        /\ \A d \in SafeMultDivisions(LeftOperand, RightOperand) :
              d.den # 0 /\ InRange(ty, TruncDiv(d.num, d.den))
        /\ (last.l = 0 \/ last.r = 0) => last.kind = "ok" /\ last.res.value = 0

C15_Witness ==
    /\ last.op = "*"
    /\ ty.sgn
    /\ last.l = 0
    /\ last.r = lo
    /\ last.kind = "ok"
    /\ last.res.value = 0

(* C16: below the bound, postfix ++ and -- return a wrapper holding the    *)
(* old value and leave the operand one higher or lower; prefix ++ and --   *)
(* return the operand itself, one higher or lower.  At the bound the       *)
(* postfix forms throw and return nothing.                                 *)
C16_PrefixPostfix ==
    LET now == obj[last.tgt]
    IN  /\ (last.op = "x++" /\ last.l < hi) =>
              last.kind = "ok" /\ last.res.value = last.l /\ now.value = last.l + 1
        /\ (last.op = "++x" /\ last.l < hi) =>
              last.kind = "ok" /\ last.res = now /\ now.value = last.l + 1
        /\ (last.op = "x--" /\ last.l > lo) =>
              last.kind = "ok" /\ last.res.value = last.l /\ now.value = last.l - 1
        /\ (last.op = "--x" /\ last.l > lo) =>
              last.kind = "ok" /\ last.res = now /\ now.value = last.l - 1
        /\ (last.op = "x++" /\ last.l = hi) =>
              last.kind = "AdditionOverflow" /\ last.res = NoWrapper
        /\ (last.op = "x--" /\ last.l = lo) =>
              last.kind = "SubtractionUnderflow" /\ last.res = NoWrapper

C16_Witness ==
    /\ last.op = "x++"
    /\ last.kind = "ok"
    /\ last.l = hi - 1
    /\ last.res.value = hi - 1
    /\ obj[last.tgt].value = hi

(* C17: x += y, for y a wrapper or a value of the wrapped type, has the    *)
(* outcome of SafeAdd(x, y): when SafeAdd returns s, x.value becomes       *)
(* s.value and nothing else changes; when SafeAdd throws, x += y throws    *)
(* the same exception and nothing changes.                                 *)
C17_CompoundAddition ==
    last.op = "+=" =>
        \E o \in SafeAdd(last.pre[last.tgt], RightOperand) :
            IF o.kind = "ok"
            THEN /\ last.kind = "ok"
                 /\ obj = [last.pre EXCEPT ![last.tgt].value = o.w.value]
            ELSE /\ last.kind = o.kind
                 /\ obj = last.pre

C17_Witness ==
    /\ last.op = "+="
    /\ last.shape = "wr"
    /\ last.kind = "ok"
    /\ last.l < 0
    /\ last.r > 0
    /\ obj[last.tgt].value = last.l + last.r
    /\ obj[last.tgt].value # last.l

(* C18: SafeAdd fails only with AdditionOverflow or AdditionUnderflow,     *)
(* SafeSub only with SubtractionOverflow or SubtractionUnderflow, SafeMult *)
(* only with MultiplicationOverflow or MultiplicationUnderflow: the        *)
(* construction of the result never raises SizeMismatch or TypeMismatch,   *)
(* the result being in [min, max] whenever the tests pass.                 *)
C18_SpecificFailures ==
    /\ last.op = "+" => last.kind \in {"ok", "AdditionOverflow", "AdditionUnderflow"}
    /\ last.op = "-" => last.kind \in {"ok", "SubtractionOverflow", "SubtractionUnderflow"}
    /\ last.op = "*" =>
          last.kind \in {"ok", "MultiplicationOverflow", "MultiplicationUnderflow"}
    /\ (last.op \in {"+", "-", "*"} /\ last.kind = "ok") =>
          last.res.value = Exact(last.op, last.l, last.r)

(* C19: over a signed type of int width, every subexpression SafeSub       *)
(* evaluates in its tests has its exact value in [min, max], abs(right)    *)
(* for right = min included, so left > 0 with right = min throws           *)
(* SubtractionOverflow.                                                    *)
C19_SubtractionCheckNoOverflow ==
    (last.op = "-" /\ ty.sgn /\ ty.bits = IntBits) =>
        /\ \A e \in SafeSubEvaluated(LeftOperand, RightOperand) : InRange(ty, e)
        /\ (last.l > 0 /\ last.r = lo) => last.kind = "SubtractionOverflow"


(***************************************************************************)
(* C20.  Repeated increment terminates at the bound.  In a run that starts *)
(* from a value v and applies ++ over and over, a call below max(T)        *)
(* returns, raises the value by exactly 1 and is counted; a call at max(T) *)
(* throws AdditionOverflow and leaves the value alone.  The count is       *)
(* always the distance travelled from v, the run reaches max(T) with       *)
(* exactly max(T) - v calls counted and stays there forever, and ++ goes   *)
(* on failing from then on.  A run of -- is the mirror image: v - min(T)   *)
(* calls counted, then SubtractionUnderflow at min(T) forever.             *)
(***************************************************************************)
RunCall ==
    LET v == obj["a"].value
        n == obj'["a"].value
    IN  (Idle /\ ~Idle') =>
           IF run.dir = "++"
           THEN IF v < hi
                THEN last'.kind = "ok" /\ n = v + 1 /\ run'.ok = run.ok + 1
                ELSE last'.kind = "AdditionOverflow" /\ n = v /\ run'.ok = run.ok
           ELSE IF v > lo
                THEN last'.kind = "ok" /\ n = v - 1 /\ run'.ok = run.ok + 1
                ELSE last'.kind = "SubtractionUnderflow" /\ n = v /\ run'.ok = run.ok

RunCount ==
    IF run.dir = "++" THEN run.ok = obj["a"].value - run.start
    ELSE run.ok = run.start - obj["a"].value

RunAtBound ==
    IF run.dir = "++" THEN obj["a"].value = hi /\ run.ok = hi - run.start
    ELSE obj["a"].value = lo /\ run.ok = run.start - lo

RunFailing ==
    /\ RunAtBound
    /\ last.kind = IF run.dir = "++" THEN "AdditionOverflow" ELSE "SubtractionUnderflow"

C20_RepeatedIncrementTerminates ==
    /\ [][RunCall]_vars
    /\ []RunCount
    /\ <>[]RunAtBound
    /\ []<>RunFailing

(* A run of ++ from min(T) has counted every value of the type and the     *)
(* next call has thrown AdditionOverflow.                                  *)
C20_Witness ==
    /\ run.dir = "++"
    /\ run.start = lo
    /\ run.start < hi
    /\ run.ok = hi - lo
    /\ obj["a"].value = hi
    /\ last.op = "++x"
    /\ last.kind = "AdditionOverflow"
=============================================================================
